---- MODULE Spec2Model ----
(***************************************************************************)
(* State-machine model of the EchoLayer scoring-and-reward backend:        *)
(*   - RewardsService      (src/backend/src/services/rewards.rs)           *)
(*   - RewardService       (src/backend/src/services/reward_service.rs)    *)
(*   - PropagationService  (src/backend/src/services/propagation.rs)       *)
(*                                                                         *)
(* f64 values are fixed-point integers in units of 1/Scale, together with  *)
(* three values outside the finite range for NaN, +infinity and -infinity, *)
(* which the arithmetic below treats as IEEE-754 does.  Times are hours.   *)
(***************************************************************************)
EXTENDS Integers, Sequences, FiniteSets, TLC

\* ------------------------------------------------------------------ f64

Scale == 1000
PInf == 1000000000
NInf == -PInf
NaN == 2000000000

IsNaN(x) == x = NaN
IsInf(x) == x = PInf \/ x = NInf

Sign(x) == IF x > 0 THEN 1 ELSE IF x < 0 THEN -1 ELSE 0

\* Integer division truncating toward zero.
TruncDiv(a, b) ==
    IF (a >= 0) = (b > 0) THEN (IF a >= 0 THEN a ELSE -a) \div (IF b > 0 THEN b ELSE -b)
    ELSE -((IF a >= 0 THEN a ELSE -a) \div (IF b > 0 THEN b ELSE -b))

\* a > b on f64: false as soon as one side is NaN.
FGt(a, b) == ~IsNaN(a) /\ ~IsNaN(b) /\ a > b
FGe(a, b) == ~IsNaN(a) /\ ~IsNaN(b) /\ a >= b
FLt(a, b) == FGt(b, a)
FLe(a, b) == FGe(b, a)

FNeg(a) == IF IsNaN(a) THEN NaN ELSE -a

FAdd(a, b) ==
    IF IsNaN(a) \/ IsNaN(b) THEN NaN
    ELSE IF IsInf(a) /\ IsInf(b) THEN (IF a = b THEN a ELSE NaN)
    ELSE IF IsInf(a) THEN a
    ELSE IF IsInf(b) THEN b
    ELSE a + b

FSub(a, b) == FAdd(a, FNeg(b))

FMul(a, b) ==
    IF IsNaN(a) \/ IsNaN(b) THEN NaN
    ELSE IF IsInf(a) \/ IsInf(b)
         THEN (IF a = 0 \/ b = 0 THEN NaN
               ELSE IF Sign(a) = Sign(b) THEN PInf ELSE NInf)
    ELSE TruncDiv(a * b, Scale)

FDiv(a, b) ==
    IF IsNaN(a) \/ IsNaN(b) THEN NaN
    ELSE IF IsInf(a) /\ IsInf(b) THEN NaN
    ELSE IF IsInf(a) THEN (IF Sign(b) >= 0 THEN a ELSE -a)
    ELSE IF IsInf(b) THEN 0
    ELSE IF b = 0 THEN (IF a = 0 THEN NaN ELSE IF a > 0 THEN PInf ELSE NInf)
    ELSE TruncDiv(a * Scale, b)

\* f64::min / f64::max: when one side is NaN the other is returned.
FMin(a, b) == IF IsNaN(a) THEN b ELSE IF IsNaN(b) THEN a ELSE IF a < b THEN a ELSE b
FMax(a, b) == IF IsNaN(a) THEN b ELSE IF IsNaN(b) THEN a ELSE IF a > b THEN a ELSE b

FAbs(a) == IF IsNaN(a) THEN NaN ELSE IF a < 0 THEN -a ELSE a

\* ---------------------------------------------------------------- bounds

MaxAwards == 2
MaxTicks == 1
MaxLoops == 1
MaxEvents == 2
MaxScores == 2
MaxPathEvents == 3

\* ---------------------------------------------------------------- inputs

Users == {"u1", "u2"}
NoUser == "-"
DailyPools == {0, 3 * Scale}
Amounts == {-2 * Scale, 2 * Scale, NaN}
HoursPerDay == 24

\* RewardType
RewardTypes ==
    {"ContentCreation", "QualityBonus", "PropagationBonus", "DiscoveryBonus",
     "EngagementReward", "EchoLoopParticipation", "CommunityContribution"}
AwardTypes == {"ContentCreation", "PropagationBonus"}

VARIABLES
    daily_pool,              \* RewardsService.daily_pool
    current_pool_remaining,  \* RewardsService.current_pool_remaining
    pending_rewards,         \* user -> sequence of EchoDropReward (absent key = <<>>)
    processed_rewards,       \* user -> sequence of EchoDropReward (absent key = <<>>)
    user_stats,              \* function from the users that have stats to UserRewardStats
    nextUuid,                \* the next value uuid::Uuid::new_v4() returns for a reward id
    nextTx,                  \* the next value uuid::Uuid::new_v4() returns for a transaction hash
    active_loops,            \* PropagationService.active_loops: loop id -> EchoLoop
    nextLoop,                \* the next value uuid::Uuid::new_v4() returns for a loop id
    nEvents,                 \* how many propagation events were recorded
    user_engagement_cache,   \* RewardService.user_engagement_cache: user -> f64
    content_metrics_cache,   \* RewardService.content_metrics_cache: content -> EchoMetrics
    award_batch,             \* award requests issued together, and the ledger they met
    scores,                  \* the calculate_echo_index calls made: inputs, time, result
    engines,                 \* the scoring engines constructed: kind and weights
    now,                     \* Utc::now(), in hours
    last                     \* the last call: operation, arguments and what it returned

ledgerVars == <<daily_pool, current_pool_remaining, pending_rewards,
                processed_rewards, user_stats>>
propVars == <<active_loops, nextLoop, nEvents>>
rewardVars == <<daily_pool, current_pool_remaining, pending_rewards, processed_rewards,
                user_stats, nextUuid, nextTx>>
cacheVars == <<user_engagement_cache, content_metrics_cache>>
calcVars == <<scores, engines>>
vars == <<daily_pool, current_pool_remaining, pending_rewards, processed_rewards,
          user_stats, nextUuid, nextTx, active_loops, nextLoop, nEvents,
          user_engagement_cache, content_metrics_cache, award_batch, scores,
          engines,
          now, last>>

\* ------------------------------------------------------- RewardsService

Contents == {"c1"}
NoHash == 0    \* transaction_hash: None

EchoDropReward(id, user_id, content_id, reward_type, amount, contribution, timestamp) ==
    [id |-> id, user_id |-> user_id, content_id |-> content_id,
     reward_type |-> reward_type, amount |-> amount,
     echo_index_contribution |-> contribution, timestamp |-> timestamp,
     transaction_hash |-> NoHash]

\* The entry update_user_stats inserts for a user that has none.
NewUserStats ==
    [total_earned |-> 0, content_rewards |-> 0, propagation_rewards |-> 0,
     quality_bonuses |-> 0, current_multiplier |-> 1 * Scale, rank |-> 0,
     reward_velocity |-> 0]

\* RewardMultiplier::default().base_rate
BaseRate == 1 * Scale

\* The ledger as one value: what award_reward reads and writes.
Ledger ==
    [pool |-> current_pool_remaining, pending |-> pending_rewards,
     processed |-> processed_rewards, stats |-> user_stats, uuid |-> nextUuid]

RECURSIVE SumAmounts(_)
SumAmounts(rewards) ==
    IF rewards = <<>> THEN 0
    ELSE FAdd(SumAmounts(SubSeq(rewards, 1, Len(rewards) - 1)),
              rewards[Len(rewards)].amount)

\* calculate_reward_velocity: the processed rewards of the last 24 hours, per hour.
CalculateRewardVelocity(processed, user_id, t) ==
    LET cutoff_time == t - 24
        recent == SelectSeq(processed[user_id], LAMBDA r : r.timestamp >= cutoff_time)
    IN  FDiv(SumAmounts(recent), 24 * Scale)

\* A multiplier without the consistency bonus.
CalculateUserMultiplierNoVelocity(stats, user_id) ==
    IF user_id \notin DOMAIN stats THEN 1 * Scale
    ELSE LET s == stats[user_id]
             m0 == BaseRate
             m1 == IF FGt(s.quality_bonuses, FMul(s.total_earned, 200))
                   THEN FAdd(m0, 200) ELSE m0
             m2 == IF FGt(s.propagation_rewards, FMul(s.total_earned, 300))
                   THEN FAdd(m1, 300) ELSE m1
         IN  FMin(m2, 3 * Scale)

\* calculate_user_multiplier
CalculateUserMultiplier(stats, user_id) ==
    IF user_id \notin DOMAIN stats THEN 1 * Scale
    ELSE LET s == stats[user_id]
             m0 == BaseRate
             m1 == IF FGt(s.quality_bonuses, FMul(s.total_earned, 200))
                   THEN FAdd(m0, 200) ELSE m0
             m2 == IF FGt(s.propagation_rewards, FMul(s.total_earned, 300))
                   THEN FAdd(m1, 300) ELSE m1
             m3 == IF FGt(s.reward_velocity, 500) THEN FAdd(m2, 100) ELSE m2
         IN  FMin(m3, 3 * Scale)

\* A match that counts a discovery bonus as a content reward.
AddToCategoryDiscovery(s, amount, reward_type) ==
    CASE reward_type \in {"ContentCreation", "DiscoveryBonus"} ->
            [s EXCEPT !.content_rewards = FAdd(@, amount)]
      [] reward_type \in {"PropagationBonus", "EchoLoopParticipation"} ->
            [s EXCEPT !.propagation_rewards = FAdd(@, amount)]
      [] reward_type = "QualityBonus" ->
            [s EXCEPT !.quality_bonuses = FAdd(@, amount)]
      [] OTHER -> s

\* The match of update_user_stats: which category an award counts in.
AddToCategory(s, amount, reward_type) ==
    CASE reward_type = "ContentCreation" ->
            [s EXCEPT !.content_rewards = FAdd(@, amount)]
      [] reward_type \in {"PropagationBonus", "EchoLoopParticipation"} ->
            [s EXCEPT !.propagation_rewards = FAdd(@, amount)]
      [] reward_type = "QualityBonus" ->
            [s EXCEPT !.quality_bonuses = FAdd(@, amount)]
      [] OTHER -> s

\* update_user_stats
UpdateUserStats(stats, processed, user_id, amount, reward_type, t) ==
    LET s0 == IF user_id \in DOMAIN stats THEN stats[user_id] ELSE NewUserStats
        s1 == [s0 EXCEPT !.total_earned = FAdd(@, amount)]
        s2 == AddToCategory(s1, amount, reward_type)
        s3 == [s2 EXCEPT !.reward_velocity = CalculateRewardVelocity(processed, user_id, t)]
        st3 == (user_id :> s3) @@ stats
        s4 == [s3 EXCEPT !.current_multiplier = CalculateUserMultiplier(st3, user_id)]
    IN  (user_id :> s4) @@ stats

\* A pool reduced by the amount times a multiplier of 1.5.
PoolAfterScaled(pool, amount) == FSub(pool, FMul(amount, 1500))

\* self.current_pool_remaining -= amount
PoolAfter(pool, amount) == FSub(pool, amount)

\* A balance check against the daily budget instead of what is left of it.
PoolExhaustedDaily(amount, remaining) == FGt(amount, daily_pool)

\* The balance check of award_reward.
PoolExhausted(amount, remaining) == FGt(amount, remaining)

\* award_reward on ledger L at time t: whether it succeeded, the reward id, the ledger after.
AwardRewardIn(L, user_id, content_id, reward_type, amount, contribution, t) ==
    IF PoolExhausted(amount, L.pool)
    THEN [ok |-> FALSE, id |-> 0, L |-> L]
    ELSE LET reward == EchoDropReward(L.uuid, user_id, content_id, reward_type,
                                      amount, contribution, t)
             pending == [L.pending EXCEPT ![user_id] = Append(@, reward)]
             stats == UpdateUserStats(L.stats, L.processed, user_id, amount, reward_type, t)
         IN  [ok |-> TRUE, id |-> L.uuid,
              L |-> [pool |-> PoolAfter(L.pool, amount), pending |-> pending,
                     processed |-> L.processed, stats |-> stats, uuid |-> L.uuid + 1]]

\* The number of rewards ever awarded.
RECURSIVE CountRewards(_, _)
CountRewards(f, S) ==
    IF S = {} THEN 0
    ELSE LET u == CHOOSE x \in S : TRUE
         IN  Len(f[u]) + CountRewards(f, S \ {u})
Awarded == CountRewards(pending_rewards, Users) + CountRewards(processed_rewards, Users)

Call(op, user, amount, result, ret) ==
    [op |-> op, user |-> user, amount |-> amount, result |-> result, ret |-> ret]

SetLedger(L) ==
    /\ current_pool_remaining' = L.pool
    /\ pending_rewards' = L.pending
    /\ processed_rewards' = L.processed
    /\ user_stats' = L.stats
    /\ nextUuid' = L.uuid

\* RewardsService::new(pool)
RewardsServiceNew(pool) ==
    /\ daily_pool = pool
    /\ current_pool_remaining = daily_pool
    /\ pending_rewards = [u \in Users |-> <<>>]
    /\ processed_rewards = [u \in Users |-> <<>>]
    /\ user_stats = <<>>
    /\ nextUuid = 1
    /\ nextTx = 1
    /\ now = 0
    /\ last = Call("new", NoUser, 0, "ok", <<>>)

\* The service is built with one of the budgets of DailyPools.
LedgerInit == \E pool \in DailyPools : RewardsServiceNew(pool)

\* award_reward(user_id, content_id, reward_type, amount, echo_index_contribution)
AwardReward(user_id, content_id, reward_type, amount) ==
    /\ Awarded < MaxAwards
    /\ LET r == AwardRewardIn(Ledger, user_id, content_id, reward_type, amount, 0, now)
       IN  /\ SetLedger(r.L)
           /\ last' = Call("award_reward", user_id, amount,
                           IF r.ok THEN "ok" ELSE "err",
                           IF r.ok THEN <<r.id>> ELSE <<>>)
    /\ UNCHANGED <<daily_pool, nextTx, now, propVars, cacheVars, award_batch, calcVars>>

\* A record moved without a settlement reference.
StampNothing(reward, uuid) == reward

\* The settlement reference process_pending_rewards gives the i-th record of a batch.
Stamp(reward, uuid) == [reward EXCEPT !.transaction_hash = uuid]

\* A batch built back to front.
ProcessedBatchReversed(pending, uuid) ==
    [i \in 1..Len(pending) |-> Stamp(pending[Len(pending) + 1 - i], uuid + i - 1)]

\* The batch process_pending_rewards builds from the pending records, in their order.
ProcessedBatch(pending, uuid) ==
    [i \in 1..Len(pending) |-> Stamp(pending[i], uuid + i - 1)]

\* process_pending_rewards(user_id)
ProcessPendingRewards(user_id) ==
    LET pending == pending_rewards[user_id]
        processed == ProcessedBatch(pending, nextTx)
    IN  /\ pending_rewards' = [pending_rewards EXCEPT ![user_id] = <<>>]
        /\ processed_rewards' = [processed_rewards EXCEPT ![user_id] = @ \o processed]
        /\ nextTx' = nextTx + Len(pending)
        /\ last' = Call("process_pending_rewards", user_id, 0, "ok", processed)
        /\ UNCHANGED <<daily_pool, current_pool_remaining, user_stats, nextUuid, now,
                       propVars, cacheVars, award_batch, calcVars>>

\* The orders a set S can be listed in.
Orderings(S) ==
    {ord \in [1..Cardinality(S) -> S] : \A i, j \in 1..Cardinality(S) : i # j => ord[i] # ord[j]}

\* A sort in ascending order.
SortedByTotalAscending(ord, stats) ==
    \A i, j \in DOMAIN ord :
        i < j => FLe(stats[ord[i]].total_earned, stats[ord[j]].total_earned)

\* users.sort_by(|a, b| b.total_earned.partial_cmp(&a.total_earned).unwrap()): the
\* order is descending; users with equal totals stay in the map's iteration order.
SortedByTotal(ord, stats) ==
    \A i, j \in DOMAIN ord :
        i < j => FGe(stats[ord[i]].total_earned, stats[ord[j]].total_earned)

\* partial_cmp returns None on NaN, and unwrap panics: with two users or more every
\* user is compared at least once.
SortPanics(stats) ==
    /\ Cardinality(DOMAIN stats) >= 2
    /\ \E u \in DOMAIN stats : IsNaN(stats[u].total_earned)

\* The rank given to the user at (1-based) position i of the sorted list.
RankAt(i) == i

\* calculate_leaderboard
CalculateLeaderboard ==
    /\ IF SortPanics(user_stats)
       THEN /\ last' = Call("calculate_leaderboard", NoUser, 0, "panic", <<>>)
            /\ UNCHANGED user_stats
       ELSE \E ord \in Orderings(DOMAIN user_stats) :
              /\ SortedByTotal(ord, user_stats)
              /\ user_stats' = [u \in DOMAIN user_stats |->
                                  LET i == CHOOSE k \in DOMAIN ord : ord[k] = u
                                  IN  [user_stats[u] EXCEPT !.rank = RankAt(i)]]
              /\ last' = Call("calculate_leaderboard", NoUser, 0, "ok",
                              [i \in DOMAIN ord |-> <<ord[i], user_stats[ord[i]]>>])
    /\ UNCHANGED <<daily_pool, current_pool_remaining, pending_rewards,
                   processed_rewards, nextUuid, nextTx, now, propVars, cacheVars, award_batch, calcVars>>

\* reset_daily_pool
ResetDailyPool ==
    /\ current_pool_remaining' = daily_pool
    /\ last' = Call("reset_daily_pool", NoUser, 0, "ok", <<>>)
    /\ UNCHANGED <<daily_pool, pending_rewards, processed_rewards, user_stats,
                   nextUuid, nextTx, now, propVars, cacheVars, award_batch, calcVars>>

LedgerNext ==
    \/ \E u \in Users, c \in Contents, k \in AwardTypes, a \in Amounts :
          AwardReward(u, c, k, a)
    \/ \E u \in Users : ProcessPendingRewards(u)
    \/ CalculateLeaderboard
    \/ ResetDailyPool

\* PropagationService::new()
PropInit ==
    /\ active_loops = <<>>
    /\ nextLoop = 1
    /\ nEvents = 0

\* RewardService::new(): the two caches
CacheInit ==
    /\ user_engagement_cache = <<>>
    /\ content_metrics_cache = <<>>

\* No requests in flight.
NoBatch == [requests |-> <<>>, before |-> <<>>]

\* Nothing scored and no engine built yet.
CalcInit ==
    /\ scores = <<>>
    /\ engines = {}

Init == LedgerInit /\ PropInit /\ CacheInit /\ award_batch = NoBatch /\ CalcInit

\* The ledger alone, all calls within one hour.
LedgerSpec == Init /\ [][LedgerNext]_vars

\* A budget that several large awards fit in, the awards made from it and their kinds:
\* one kind of each category and one that counts in total_earned only.
VelocityPool == 30 * Scale
VelocityAmounts == {1 * Scale, 13 * Scale}
VelocityTypes == {"QualityBonus", "PropagationBonus", "DiscoveryBonus"}

\* More than a day passes.
LongTick ==
    /\ now < MaxTicks * (HoursPerDay + 1)
    /\ now' = now + HoursPerDay + 1
    /\ last' = Call("tick", NoUser, 0, "ok", <<>>)
    /\ UNCHANGED <<rewardVars, propVars, cacheVars, award_batch, calcVars>>

VelocityNext ==
    \/ \E u \in Users, c \in Contents, k \in VelocityTypes, a \in VelocityAmounts :
          AwardReward(u, c, k, a)
    \/ \E u \in Users : ProcessPendingRewards(u)
    \/ LongTick

VelocityStart ==
    /\ RewardsServiceNew(VelocityPool)
    /\ PropInit /\ CacheInit /\ award_batch = NoBatch /\ CalcInit

\* The ledger over more than a day, with awards of every category.
VelocitySpec == VelocityStart /\ [][VelocityNext]_vars

\* ------------------------------------------------- claims on the ledger

\* C1: for a service built with daily_pool >= 0, current_pool_remaining is >= 0 in
\* every state reachable by award_reward (any amount), process_pending_rewards,
\* calculate_leaderboard and reset_daily_pool.
C1_PoolNeverNegative == FGe(current_pool_remaining, 0)

\* C2: an award_reward call with amount > current_pool_remaining returns the
\* pool-exhausted error and leaves the pool, the pending and processed collections
\* and every user's stats as they were (no stats entry appears for a new user).
C2_RejectedAwardChangesNothing ==
    [][(last'.op = "award_reward" /\ FGt(last'.amount, current_pool_remaining))
          => /\ last'.result = "err"
             /\ last'.ret = <<>>
             /\ UNCHANGED <<ledgerVars, nextUuid, nextTx>>]_vars

\* An award was refused for a user that has no stats, and the user still has none.
C2_Witness ==
    /\ last.op = "award_reward"
    /\ last.result = "err"
    /\ FGt(last.amount, current_pool_remaining)
    /\ last.user \notin DOMAIN user_stats
    /\ pending_rewards[last.user] = <<>>

\* C3: reset_daily_pool sets current_pool_remaining to daily_pool and is the only
\* operation that can increase it, so current_pool_remaining <= daily_pool in every
\* reachable state.
C3_OnlyResetReplenishes ==
    [][/\ last'.op = "reset_daily_pool" => current_pool_remaining' = daily_pool
       /\ FGt(current_pool_remaining', current_pool_remaining)
             => last'.op = "reset_daily_pool"
       /\ ~FGt(current_pool_remaining', daily_pool')]_vars

\* C4: process_pending_rewards(user) never fails and returns exactly the records that
\* were pending for the user, in award order, each with a settlement reference;
\* afterwards the user's pending amount is 0, the user's processed collection has
\* grown by exactly the returned batch, and the records of every other user, the
\* pool and all user stats are unchanged.
C4_FlushMovesThePendingBatch ==
    [][last'.op = "process_pending_rewards"
          => LET u == last'.user
                 batch == last'.ret
             IN  /\ last'.result = "ok"
                 /\ Len(batch) = Len(pending_rewards[u])
                 /\ \A i \in 1..Len(batch) :
                       /\ batch[i].transaction_hash # NoHash
                       /\ [batch[i] EXCEPT !.transaction_hash = NoHash]
                             = pending_rewards[u][i]
                 /\ SumAmounts(pending_rewards'[u]) = 0
                 /\ pending_rewards'[u] = <<>>
                 /\ processed_rewards'[u] = processed_rewards[u] \o batch
                 /\ \A v \in Users \ {u} :
                       /\ pending_rewards'[v] = pending_rewards[v]
                       /\ processed_rewards'[v] = processed_rewards[v]
                 /\ UNCHANGED <<daily_pool, current_pool_remaining, user_stats>>]_vars

\* A flush returned a batch of two records of different amounts.
C4_Witness ==
    /\ last.op = "process_pending_rewards"
    /\ Len(last.ret) = 2
    /\ last.ret[1].amount # last.ret[2].amount
    /\ Len(processed_rewards[last.user]) = 2

\* The reward ids held in a collection.
IdsOf(f) == {f[u][i].id : <<u, i>> \in {p \in Users \X (1..MaxAwards) : p[2] <= Len(f[p[1]])}}

\* Whether sequence s starts with sequence p.
IsPrefix(p, s) == Len(p) <= Len(s) /\ SubSeq(s, 1, Len(p)) = p

\* The state part of C5, on the collections given.
SeparateCollections(pending, processed) ==
    /\ \A u \in Users : \A i \in 1..Len(pending[u]) :
          pending[u][i].transaction_hash = NoHash
    /\ \A u \in Users : \A i \in 1..Len(processed[u]) :
          processed[u][i].transaction_hash # NoHash
    /\ IdsOf(pending) \cap IdsOf(processed) = {}

\* C5: every pending record has no settlement reference, every processed record has
\* one, no reward id is in both collections; a processed record never returns to
\* pending and never leaves processed; the only transition from pending to processed
\* is process_pending_rewards for the record's own user.
C5_PendingThenProcessed ==
    [][/\ SeparateCollections(pending_rewards', processed_rewards')
       /\ \A u \in Users :
             /\ IsPrefix(processed_rewards[u], processed_rewards'[u])
             /\ processed_rewards'[u] # processed_rewards[u]
                   => /\ last'.op = "process_pending_rewards"
                      /\ last'.user = u
                      /\ \A i \in (Len(processed_rewards[u]) + 1)..Len(processed_rewards'[u]) :
                            /\ processed_rewards'[u][i].user_id = u
                            /\ processed_rewards'[u][i].id \in IdsOf(pending_rewards)
             /\ \A i \in 1..Len(pending_rewards[u]) :
                   pending_rewards[u][i].id \in
                       IdsOf(pending_rewards') \cup IdsOf(processed_rewards')]_vars

\* One user has a processed record and a newer pending record.
C5_Witness ==
    \E u \in Users :
        /\ processed_rewards[u] # <<>>
        /\ pending_rewards[u] # <<>>
        /\ processed_rewards[u][1].id < pending_rewards[u][1].id

ResonanceThreshold == 300
\* apply_resonance_amplification: the cap on a path's factor
PathAmplificationCap == 1500
\* apply_resonance_amplification: the cap on the loop total's factor
LoopAmplificationCap == 1300
\* cleanup_expired_loops: the strength a loop must exceed to be kept
StrengthFloor == 100

PropagationNode(id, node_type, influence_weight, reach, engagement_rate, timestamp) ==
    [id |-> id, node_type |-> node_type, influence_weight |-> influence_weight,
     reach |-> reach, engagement_rate |-> engagement_rate, timestamp |-> timestamp]

\* The nodes events are made of: influence weight and engagement rate within [0,1],
\* timestamps on whole days, one of them 12 days before and one 4 days after the
\* first clock reading.
NodeInputs ==
    {PropagationNode("a", "User", 1 * Scale, 22026, 1 * Scale, 0),
     PropagationNode("b", "Content", 0, 1, 0, -12 * HoursPerDay),
     PropagationNode("a", "Platform", 1 * Scale, 0, 1 * Scale, 4 * HoursPerDay)}
Strengths == {1 * Scale}
MaxAges == {HoursPerDay}

\* (reach as f64).ln() for the reaches of NodeInputs: ln 0 = -inf, ln 1 = 0,
\* ln 22026 = 10.000 to three decimals.
Ln(reach) ==
    CASE reach = 0 -> NInf
      [] reach = 1 -> 0
      [] reach = 22026 -> 10 * Scale

\* 0.9 to the power k, for an integer k.
RECURSIVE DecayPowDays(_)
DecayPowDays(k) ==
    IF k = 0 THEN 1 * Scale
    ELSE IF k > 0 THEN TruncDiv(DecayPowDays(k - 1) * 9, 10)
    ELSE TruncDiv(DecayPowDays(k + 1) * 10, 9)

\* decay_factor.powf(time_diff / 24.0) with decay_factor = 0.9, for time differences
\* of whole days (which is what the clock and NodeInputs give).
DecayPow(time_diff) == DecayPowDays(TruncDiv(time_diff, HoursPerDay))

\* calculate_propagation_weight
CalculatePropagationWeight(from_node, to_node, interaction_strength) ==
    LET influence_factor == FMul(from_node.influence_weight, 400)
        reach_factor == FDiv(Ln(from_node.reach), 20 * Scale)
        engagement_factor == FMul(from_node.engagement_rate, 300)
        target_receptivity == FMul(to_node.engagement_rate, 300)
    IN  FMul(FAdd(FAdd(FAdd(influence_factor, reach_factor), engagement_factor),
                  target_receptivity),
             interaction_strength)

\* calculate_node_compatibility
CalculateNodeCompatibility(node1, node2) ==
    LET types == <<node1.node_type, node2.node_type>>
        type_compatibility ==
            CASE types = <<"User", "User">> -> 800
              [] types = <<"User", "Content">> -> 900
              [] types = <<"Content", "User">> -> 900
              [] types = <<"Content", "Platform">> -> 700
              [] types = <<"Platform", "User">> -> 600
              [] OTHER -> 500
        influence_sync ==
            FSub(Scale, FAbs(FSub(node1.influence_weight, node2.influence_weight)))
        engagement_sync ==
            FSub(Scale, FAbs(FSub(node1.engagement_rate, node2.engagement_rate)))
    IN  FDiv(FAdd(FAdd(type_compatibility, influence_sync), engagement_sync), 3 * Scale)

\* The loop of calculate_path_resonance over the first n edges:
\* <<resonance, weight_accumulator>>.
RECURSIVE ResonanceSums(_, _, _)
ResonanceSums(nodes, n, t) ==
    IF n = 0 THEN <<0, 0>>
    ELSE LET acc == ResonanceSums(nodes, n - 1, t)
             compatibility == CalculateNodeCompatibility(nodes[n], nodes[n + 1])
             time_diff == t - nodes[n].timestamp
             decay == DecayPow(time_diff)
         IN  <<FAdd(acc[1], FMul(compatibility, decay)), FAdd(acc[2], compatibility)>>

\* calculate_path_resonance
CalculatePathResonance(path, t) ==
    IF Len(path.nodes) < 2 THEN 0
    ELSE LET sums == ResonanceSums(path.nodes, Len(path.nodes) - 1, t)
         IN  IF FGt(sums[2], 0) THEN FDiv(sums[1], sums[2]) ELSE 0

\* detect_path_convergence
DetectPathConvergence(echo_loop) ==
    LET paths == echo_loop.propagation_paths
        visits == {<<p, i>> \in (DOMAIN paths) \X (1..(2 + MaxEvents + MaxPathEvents)) :
                      i <= Len(paths[p].nodes)}
        node_visits == [id \in {paths[v[1]].nodes[v[2]].id : v \in visits} |->
                           Cardinality({v \in visits : paths[v[1]].nodes[v[2]].id = id})]
        total_nodes == Cardinality(visits)
        repeated_nodes == Cardinality({id \in DOMAIN node_visits : node_visits[id] > 1})
    IN  IF total_nodes > 0 THEN FDiv(repeated_nodes * Scale, total_nodes * Scale) ELSE 0

RECURSIVE SumResonance(_)
SumResonance(paths) ==
    IF paths = <<>> THEN 0
    ELSE FAdd(SumResonance(SubSeq(paths, 1, Len(paths) - 1)),
              paths[Len(paths)].resonance_factor)

\* A strength left as computed.
CapStrengthNone(x) == x

\* The cap calculate_loop_strength puts on its result.
CapStrength(x) == FMin(x, 1 * Scale)

\* calculate_loop_strength
CalculateLoopStrength(echo_loop, t) ==
    IF echo_loop.propagation_paths = <<>> THEN 0
    ELSE LET path_count == Len(echo_loop.propagation_paths) * Scale
             average_resonance == FDiv(echo_loop.total_resonance, path_count)
             convergence_factor == DetectPathConvergence(echo_loop)
             age_hours == (t - echo_loop.created_at) * Scale
             time_factor == FMax(FDiv(Scale, FAdd(Scale, FMul(age_hours, 10))), 100)
         IN  CapStrength(FAdd(FAdd(FMul(average_resonance, 500),
                                   FMul(convergence_factor, 300)),
                              FMul(time_factor, 200)))

\* A path resonance multiplied by the whole amplification factor.
PathAmplificationUncapped(amplification_factor) == amplification_factor

\* The factor apply_resonance_amplification multiplies a path's resonance by.
PathAmplification(amplification_factor) == FMin(amplification_factor, PathAmplificationCap)

\* The factor apply_resonance_amplification multiplies the loop's total resonance by.
LoopAmplification(amplification_factor) == FMin(amplification_factor, LoopAmplificationCap)

\* apply_resonance_amplification
ApplyResonanceAmplification(echo_loop) ==
    LET amplification_factor ==
            FAdd(Scale, FMul(FSub(echo_loop.total_resonance, ResonanceThreshold), 500))
    IN  [echo_loop EXCEPT
            !.propagation_paths =
                [i \in DOMAIN @ |->
                    [@[i] EXCEPT
                        !.total_weight = FMul(@, amplification_factor),
                        !.resonance_factor = FMul(@, PathAmplification(amplification_factor))]],
            !.total_resonance = FMul(@, LoopAmplification(amplification_factor))]

\* Whether update_echo_loop_metrics amplifies.
ExceedsThreshold(total_resonance) == FGt(total_resonance, ResonanceThreshold)

\* update_echo_loop_metrics
UpdateEchoLoopMetrics(echo_loop, t) ==
    LET paths == [i \in DOMAIN echo_loop.propagation_paths |->
                    [echo_loop.propagation_paths[i] EXCEPT
                        !.resonance_factor =
                            CalculatePathResonance(echo_loop.propagation_paths[i], t)]]
        l1 == [echo_loop EXCEPT !.propagation_paths = paths,
                                !.total_resonance = SumResonance(paths)]
        l2 == [l1 EXCEPT !.loop_strength = CalculateLoopStrength(l1, t)]
    IN  IF ExceedsThreshold(l2.total_resonance) THEN ApplyResonanceAmplification(l2) ELSE l2

\* The last path whose last node is from_node (0 when there is none).
PathEndingAtLatest(paths, from_node) ==
    IF \E i \in DOMAIN paths : paths[i].nodes[Len(paths[i].nodes)].id = from_node.id
    THEN CHOOSE i \in DOMAIN paths :
            /\ paths[i].nodes[Len(paths[i].nodes)].id = from_node.id
            /\ \A j \in (i + 1)..Len(paths) : paths[j].nodes[Len(paths[j].nodes)].id # from_node.id
    ELSE 0

\* The first path whose last node is from_node (0 when there is none).
PathEndingAt(paths, from_node) ==
    IF \E i \in DOMAIN paths : paths[i].nodes[Len(paths[i].nodes)].id = from_node.id
    THEN CHOOSE i \in DOMAIN paths :
            /\ paths[i].nodes[Len(paths[i].nodes)].id = from_node.id
            /\ \A j \in 1..(i - 1) : paths[j].nodes[Len(paths[j].nodes)].id # from_node.id
    ELSE 0

\* The path update of add_propagation_event.  edge_weights is not a field of
\* PropagationPath: it records the sum of the edge weights accumulated into the path.
RecordEdge(paths, from_node, to_node, propagation_weight) ==
    LET i == PathEndingAt(paths, from_node)
    IN  IF i # 0
        THEN [paths EXCEPT ![i] =
                [@ EXCEPT !.nodes = Append(@, to_node),
                          !.total_weight = FAdd(@, propagation_weight),
                          !.edge_weights = FAdd(@, propagation_weight)]]
        ELSE Append(paths, [nodes |-> <<from_node, to_node>>,
                            total_weight |-> propagation_weight,
                            resonance_factor |-> 0,
                            decay_rate |-> 900,
                            edge_weights |-> propagation_weight])

PropCall(op, loop_id, max_age_hours, result) ==
    Call(op, NoUser, max_age_hours, result, <<loop_id>>)

\* An add_propagation_event call that found its loop: the event it recorded.
EventCall(loop_id, from_node, to_node, interaction_strength, result) ==
    [op |-> "add_propagation_event", user |-> NoUser, amount |-> interaction_strength,
     result |-> result, ret |-> <<loop_id>>, from_node |-> from_node, to_node |-> to_node]

\* create_echo_loop(content_id)
CreateEchoLoop(content_id) ==
    /\ nextLoop <= MaxLoops
    /\ active_loops' = (nextLoop :>
                          [id |-> nextLoop, source_content_id |-> content_id,
                           propagation_paths |-> <<>>, total_resonance |-> 0,
                           loop_strength |-> 0, created_at |-> now,
                           last_updated |-> now]) @@ active_loops
    /\ nextLoop' = nextLoop + 1
    /\ last' = PropCall("create_echo_loop", nextLoop, 0, "ok")
    /\ UNCHANGED <<nEvents, now, rewardVars, cacheVars, award_batch, calcVars>>

\* A lookup that inserts an empty loop under an id it does not find.
GetLoopOrInsert(loops, loop_id) ==
    IF loop_id \in DOMAIN loops THEN <<loops[loop_id]>>
    ELSE <<[id |-> loop_id, source_content_id |-> "c1", propagation_paths |-> <<>>,
            total_resonance |-> 0, loop_strength |-> 0, created_at |-> now,
            last_updated |-> now]>>

\* self.active_loops.get_mut(loop_id): <<the loop>>, or <<>> for None.
GetLoop(loops, loop_id) ==
    IF loop_id \in DOMAIN loops THEN <<loops[loop_id]>> ELSE <<>>

\* add_propagation_event(loop_id, from_node, to_node, interaction_strength)
AddPropagationEventCall(loop_id, from_node, to_node, interaction_strength) ==
    /\ LET found == GetLoop(active_loops, loop_id)
       IN  IF found = <<>>
           THEN /\ last' = PropCall("add_propagation_event", loop_id, 0, "err")
                /\ UNCHANGED <<active_loops, nEvents>>
           ELSE LET propagation_weight ==
                        CalculatePropagationWeight(from_node, to_node, interaction_strength)
                    l0 == found[1]
                    l1 == [l0 EXCEPT
                             !.propagation_paths =
                                 RecordEdge(@, from_node, to_node, propagation_weight),
                             !.last_updated = now]
                IN  /\ active_loops' =
                          (loop_id :> UpdateEchoLoopMetrics(l1, now)) @@ active_loops
                    /\ nEvents' = nEvents + 1
                    /\ last' = EventCall(loop_id, from_node, to_node,
                                         interaction_strength, "ok")
    /\ UNCHANGED <<nextLoop, now, rewardVars, cacheVars, award_batch, calcVars>>

\* add_propagation_event, for as many events as MaxEvents allows
AddPropagationEvent(loop_id, from_node, to_node, interaction_strength) ==
    /\ nEvents < MaxEvents
    /\ AddPropagationEventCall(loop_id, from_node, to_node, interaction_strength)

\* The retain predicate of cleanup_expired_loops.
Retained(echo_loop, cutoff_time) ==
    echo_loop.last_updated > cutoff_time /\ FGt(echo_loop.loop_strength, StrengthFloor)

\* cleanup_expired_loops(max_age_hours)
CleanupExpiredLoops(max_age_hours) ==
    LET cutoff_time == now - max_age_hours
        kept == {id \in DOMAIN active_loops : Retained(active_loops[id], cutoff_time)}
    IN  /\ active_loops' = [id \in kept |-> active_loops[id]]
        /\ last' = Call("cleanup_expired_loops", NoUser, max_age_hours, "ok", <<>>)
        /\ UNCHANGED <<nextLoop, nEvents, now, rewardVars, cacheVars,
                       award_batch, calcVars>>

\* Time passes.
Tick ==
    /\ now < MaxTicks * HoursPerDay
    /\ now' = now + HoursPerDay
    /\ last' = Call("tick", NoUser, 0, "ok", <<>>)
    /\ UNCHANGED <<rewardVars, propVars, cacheVars, award_batch, calcVars>>

\* The loop ids callers pass: those create_echo_loop can return, and one it never does.
LoopIds == 1..(MaxLoops + 1)

PropNext ==
    \/ \E c \in Contents : CreateEchoLoop(c)
    \/ \E l \in LoopIds, f \in NodeInputs, t \in NodeInputs, s \in Strengths :
          AddPropagationEvent(l, f, t, s)
    \/ \E h \in MaxAges : CleanupExpiredLoops(h)
    \/ Tick

\* The tracker never reads the ledger: one ledger suffices beside it.
PropStart == Init /\ daily_pool = 0

\* The propagation tracker alone, beside a ledger that is not used.
PropSpec == PropStart /\ [][PropNext]_vars

\* add_propagation_event, for as many events as MaxPathEvents allows
AddPathEvent(loop_id, from_node, to_node, interaction_strength) ==
    /\ nEvents < MaxPathEvents
    /\ AddPropagationEventCall(loop_id, from_node, to_node, interaction_strength)

PathNext ==
    \/ \E c \in Contents : CreateEchoLoop(c)
    \/ \E l \in LoopIds, f \in NodeInputs, t \in NodeInputs, s \in Strengths :
          AddPathEvent(l, f, t, s)

\* Loops that grow by up to MaxPathEvents events, all within one hour.
PathSpec == PropStart /\ [][PathNext]_vars

\* ------------------------------------------------------------ EchoEngine

EchoMetrics(odf, awr, tpm, qf) ==
    [organic_discovery_factor |-> odf, attention_weight_ratio |-> awr,
     temporal_persistence_metric |-> tpm, quality_factor |-> qf]

\* EchoMetrics::default()
EchoMetricsDefault == EchoMetrics(0, 0, 0, 0)

\* EchoEngineConfig::default()
EchoEngineConfigDefault ==
    [odf_weight |-> 300, awr_weight |-> 250, tpm_weight |-> 250, qf_weight |-> 200,
     decay_factor |-> 950, boost_threshold |-> 800]

\* calculate_echo_index
CalculateEchoIndex(config, metrics) ==
    LET weighted_score ==
            FAdd(FAdd(FAdd(FMul(metrics.organic_discovery_factor, config.odf_weight),
                           FMul(metrics.attention_weight_ratio, config.awr_weight)),
                      FMul(metrics.temporal_persistence_metric, config.tpm_weight)),
                 FMul(metrics.quality_factor, config.qf_weight))
    IN  IF FGt(weighted_score, config.boost_threshold)
        THEN FMul(weighted_score, 1200)
        ELSE weighted_score

\* calculate_odf
CalculateOdf(shares_from_discovery, total_shares, platform_reach) ==
    IF total_shares = 0 THEN 0
    ELSE LET organic_ratio == FDiv(shares_from_discovery * Scale, total_shares * Scale)
             reach_factor == FDiv(Ln(platform_reach), 10 * Scale)
         IN  FMin(FAdd(FMul(organic_ratio, 700), FMul(FMin(reach_factor, 1 * Scale), 300)),
                  1 * Scale)

\* engagement_metrics.values().sum(), the map given as a sequence of its values
RECURSIVE SumValues(_)
SumValues(values) ==
    IF values = <<>> THEN 0
    ELSE FAdd(SumValues(SubSeq(values, 1, Len(values) - 1)), values[Len(values)])

\* calculate_awr
CalculateAwr(engagement_metrics, view_time, total_views) ==
    LET engagement_score == SumValues(engagement_metrics)
        time_factor == FMin(FDiv(view_time, 60 * Scale), 1 * Scale)
        popularity_factor == FDiv(Ln(total_views), 15 * Scale)
    IN  FMin(FAdd(FAdd(FMul(engagement_score, 500), FMul(time_factor, 300)),
                  FMul(FMin(popularity_factor, 1 * Scale), 200)),
             1 * Scale)

\* calculate_tpm at clock reading t; times are hours, so a day is HoursPerDay of them
CalculateTpm(creation_time, last_interaction, interaction_frequency, t) ==
    LET content_age == FDiv((t - creation_time) * Scale, HoursPerDay * Scale)
        recency == FDiv((t - last_interaction) * Scale, HoursPerDay * Scale)
        age_factor == FMax(FDiv(1 * Scale, FAdd(1 * Scale, FMul(content_age, 100))), 100)
        recency_factor == FMax(FDiv(1 * Scale, FAdd(1 * Scale, FMul(recency, 200))), 100)
        frequency_factor == FMin(FDiv(interaction_frequency, 10 * Scale), 1 * Scale)
    IN  FMin(FAdd(FAdd(FMul(age_factor, 300), FMul(recency_factor, 400)),
                  FMul(frequency_factor, 300)),
             1 * Scale)

\* calculate_qf
CalculateQf(sentiment_score, credibility_score, relevance_score, originality_score) ==
    LET normalized_sentiment == FDiv(FAdd(sentiment_score, 1 * Scale), 2 * Scale)
        normalized_credibility == FMin(FMax(credibility_score, 0), 1 * Scale)
        normalized_relevance == FMin(FMax(relevance_score, 0), 1 * Scale)
        normalized_originality == FMin(FMax(originality_score, 0), 1 * Scale)
    IN  FMin(FAdd(FAdd(FAdd(FMul(normalized_sentiment, 200),
                            FMul(normalized_credibility, 300)),
                       FMul(normalized_relevance, 300)),
                  FMul(normalized_originality, 200)),
             1 * Scale)

\* calculate_complete_echo_index at clock reading t: <<echo_index, metrics>>
CalculateCompleteEchoIndex(config, d, t) ==
    LET odf == CalculateOdf(d.shares_from_discovery, d.total_shares, d.platform_reach)
        awr == CalculateAwr(d.engagement_metrics, d.avg_view_time, d.total_views)
        tpm == CalculateTpm(d.creation_timestamp, d.last_interaction,
                            d.interaction_frequency, t)
        qf == CalculateQf(d.sentiment_score, d.credibility_score, d.relevance_score,
                          d.originality_score)
        metrics == EchoMetrics(odf, awr, tpm, qf)
    IN  <<CalculateEchoIndex(config, metrics), metrics>>

\* ------------------------------------------- RewardsService: the amounts

\* RewardMultiplier::default().quality_multiplier
QualityMultiplier == 1500
\* RewardMultiplier::default().propagation_multiplier
PropagationMultiplier == 2 * Scale

\* calculate_content_creation_reward
CalculateContentCreationReward(echo_index, content_quality_score, initial_engagement) ==
    LET base_reward == FMul(echo_index, BaseRate)
        quality_bonus == IF FGt(content_quality_score, 700)
                         THEN FMul(base_reward, FSub(QualityMultiplier, 1 * Scale))
                         ELSE 0
        engagement_factor == FMin(FMul(initial_engagement, 100), 500)
    IN  FMul(FAdd(base_reward, quality_bonus), FAdd(1 * Scale, engagement_factor))

\* calculate_propagation_reward
CalculatePropagationReward(original_echo_index, propagation_weight, user_influence, loop_strength) ==
    LET base_propagation_reward == FMul(FMul(original_echo_index, propagation_weight), 100)
        influence_bonus == FMul(user_influence, 50)
        loop_bonus == IF FGt(loop_strength, 500)
                      THEN FMul(base_propagation_reward,
                                FSub(PropagationMultiplier, 1 * Scale))
                      ELSE 0
    IN  FAdd(FAdd(base_propagation_reward, influence_bonus), loop_bonus)

\* calculate_discovery_bonus
CalculateDiscoveryBonus(discovered_content_echo_index, discovery_timing, discoverer_influence) ==
    LET timing_bonus == FMax(FSub(1 * Scale, discovery_timing), 0)
        base_discovery_reward == FMul(discovered_content_echo_index, 50)
        influence_factor == FMin(FMul(discoverer_influence, 100), 300)
    IN  FMul(base_discovery_reward,
             FAdd(FAdd(1 * Scale, timing_bonus), influence_factor))

\* --------------------------------------------------------- RewardService

\* The content ids callers pass.
ContentIds == {"c1", "c2"}

\* ContentCreationData
CreationInputs ==
    {[creation_timestamp |-> 0, estimated_reach |-> 22026, sentiment_score |-> 0,
      credibility_score |-> 1 * Scale, relevance_score |-> 1 * Scale,
      originality_score |-> 1 * Scale, quality_score |-> 800,
      initial_engagement |-> 1 * Scale]}

\* ContentUpdateData
UpdateInputs ==
    {[shares_from_discovery |-> 1, total_shares |-> 1, platform_reach |-> 22026,
      engagement_metrics |-> <<1 * Scale>>, avg_view_time |-> 60 * Scale,
      total_views |-> 22026, creation_timestamp |-> 0, last_interaction |-> 0,
      interaction_frequency |-> 10 * Scale, sentiment_score |-> 1 * Scale,
      credibility_score |-> 1 * Scale, relevance_score |-> 1 * Scale,
      originality_score |-> 1 * Scale]}

\* PropagationData: the creator is u1; a light and a heavy propagation weight
PropagationInputs ==
    {[original_creator_id |-> "u1", propagation_weight |-> w, loop_strength |-> 1 * Scale,
      platform_amplification |-> 1 * Scale] : w \in {1 * Scale, 11 * Scale}}

\* DiscoveryData
DiscoveryInputs ==
    {[discovery_timing_factor |-> f, discovery_method |-> "search", platform |-> "web"] :
        f \in {0}}

\* The users update_user_engagement is called for, and the scores it is called with.
EngagedUsers == {"u2"}
EngagementScores == {1 * Scale}

\* The influence of a user that has no engagement score: unwrap_or(0.5)
DefaultInfluence == 500

ServiceCall(op, user, content, amount, result, ret) ==
    [op |-> op, user |-> user, content |-> content, amount |-> amount,
     result |-> result, ret |-> ret]

\* A call of process_content_propagation: its arguments, the propagation reward it
\* computed and what it returned.
PropagationCall(user, content, propagation_data, amount, result, ret) ==
    [op |-> "process_content_propagation", user |-> user, content |-> content,
     creator |-> propagation_data.original_creator_id, amount |-> amount,
     result |-> result, ret |-> ret]

\* A call of process_content_discovery: its arguments, the bonus it computed and what
\* it returned.
DiscoveryCall(user, content, discovery_data, amount, result, ret) ==
    [op |-> "process_content_discovery", user |-> user, content |-> content,
     timing |-> discovery_data.discovery_timing_factor, amount |-> amount,
     result |-> result, ret |-> ret]

\* A lookup that falls back on EchoMetrics::default().
GetMetricsOrDefault(cache, content_id) ==
    IF content_id \in DOMAIN cache THEN <<cache[content_id]>> ELSE <<EchoMetricsDefault>>

\* self.content_metrics_cache.get(content_id): <<the metrics>>, or <<>> for None.
GetMetrics(cache, content_id) ==
    IF content_id \in DOMAIN cache THEN <<cache[content_id]>> ELSE <<>>

\* self.user_engagement_cache.get(user_id).copied().unwrap_or(0.5)
GetInfluence(cache, user_id) ==
    IF user_id \in DOMAIN cache THEN cache[user_id] ELSE DefaultInfluence

\* process_content_creation(user_id, content_id, content_data)
ProcessContentCreation(user_id, content_id, content_data) ==
    /\ Awarded < MaxAwards
    /\ LET d == [shares_from_discovery |-> 0, total_shares |-> 0,
                 platform_reach |-> content_data.estimated_reach,
                 engagement_metrics |-> <<>>, avg_view_time |-> 0, total_views |-> 0,
                 creation_timestamp |-> content_data.creation_timestamp,
                 last_interaction |-> content_data.creation_timestamp,
                 interaction_frequency |-> 0,
                 sentiment_score |-> content_data.sentiment_score,
                 credibility_score |-> content_data.credibility_score,
                 relevance_score |-> content_data.relevance_score,
                 originality_score |-> content_data.originality_score]
           scored == CalculateCompleteEchoIndex(EchoEngineConfigDefault, d, now)
           echo_index == scored[1]
           reward_amount ==
               CalculateContentCreationReward(echo_index, content_data.quality_score,
                                              content_data.initial_engagement)
           r == AwardRewardIn(Ledger, user_id, content_id, "ContentCreation",
                              reward_amount, echo_index, now)
       IN  /\ content_metrics_cache' = (content_id :> scored[2]) @@ content_metrics_cache
           /\ SetLedger(r.L)
           /\ last' = ServiceCall("process_content_creation", user_id, content_id,
                                  reward_amount, IF r.ok THEN "ok" ELSE "err",
                                  IF r.ok THEN <<r.id>> ELSE <<>>)
    /\ UNCHANGED <<daily_pool, nextTx, user_engagement_cache, now, propVars,
                   award_batch, calcVars>>

\* A creator that is rewarded even for propagating their own content.
SharesWithCreatorAlways(original_creator_id, propagator_user_id) == TRUE

\* Whether process_content_propagation makes the second award.
SharesWithCreator(original_creator_id, propagator_user_id) ==
    original_creator_id # propagator_user_id

\* The creator's part of a propagation reward.
CreatorReward(propagation_reward) == FMul(propagation_reward, 300)

\* process_content_propagation(propagator_user_id, original_content_id, propagation_data)
ProcessContentPropagation(propagator_user_id, original_content_id, propagation_data) ==
    /\ Awarded < MaxAwards
    /\ LET found == GetMetrics(content_metrics_cache, original_content_id)
       IN  IF found = <<>>
           THEN /\ last' = PropagationCall(propagator_user_id, original_content_id,
                                           propagation_data, 0, "err", <<>>)
                /\ UNCHANGED <<ledgerVars, nextUuid>>
           ELSE LET original_echo_index == CalculateEchoIndex(EchoEngineConfigDefault, found[1])
                    propagator_influence ==
                        GetInfluence(user_engagement_cache, propagator_user_id)
                    propagation_reward ==
                        CalculatePropagationReward(original_echo_index,
                                                   propagation_data.propagation_weight,
                                                   propagator_influence,
                                                   propagation_data.loop_strength)
                    r1 == AwardRewardIn(Ledger, propagator_user_id, original_content_id,
                                        "PropagationBonus", propagation_reward,
                                        FMul(original_echo_index,
                                             propagation_data.propagation_weight), now)
                    r2 == AwardRewardIn(r1.L, propagation_data.original_creator_id,
                                        original_content_id, "EchoLoopParticipation",
                                        CreatorReward(propagation_reward),
                                        FMul(original_echo_index, 100), now)
                IN  IF ~r1.ok
                    THEN /\ SetLedger(r1.L)
                         /\ last' = PropagationCall(propagator_user_id, original_content_id,
                                                    propagation_data, propagation_reward,
                                                    "err", <<>>)
                    ELSE IF SharesWithCreator(propagation_data.original_creator_id,
                                              propagator_user_id)
                    THEN /\ SetLedger(r2.L)
                         /\ last' = PropagationCall(propagator_user_id, original_content_id,
                                                    propagation_data, propagation_reward,
                                                    IF r2.ok THEN "ok" ELSE "err",
                                                    IF r2.ok THEN <<r1.id, r2.id>> ELSE <<>>)
                    ELSE /\ SetLedger(r1.L)
                         /\ last' = PropagationCall(propagator_user_id, original_content_id,
                                                    propagation_data, propagation_reward,
                                                    "ok", <<r1.id>>)
    /\ UNCHANGED <<daily_pool, nextTx, now, propVars, cacheVars, award_batch, calcVars>>

\* process_content_discovery(discoverer_user_id, discovered_content_id, discovery_data)
ProcessContentDiscovery(discoverer_user_id, discovered_content_id, discovery_data) ==
    /\ Awarded < MaxAwards
    /\ LET found == GetMetrics(content_metrics_cache, discovered_content_id)
       IN  IF found = <<>>
           THEN /\ last' = DiscoveryCall(discoverer_user_id, discovered_content_id,
                                         discovery_data, 0, "err", <<>>)
                /\ UNCHANGED <<ledgerVars, nextUuid>>
           ELSE LET content_echo_index == CalculateEchoIndex(EchoEngineConfigDefault, found[1])
                    discoverer_influence ==
                        GetInfluence(user_engagement_cache, discoverer_user_id)
                    discovery_bonus ==
                        CalculateDiscoveryBonus(content_echo_index,
                                                discovery_data.discovery_timing_factor,
                                                discoverer_influence)
                    r == AwardRewardIn(Ledger, discoverer_user_id, discovered_content_id,
                                       "DiscoveryBonus", discovery_bonus,
                                       FMul(content_echo_index, 100), now)
                IN  /\ SetLedger(r.L)
                    /\ last' = DiscoveryCall(discoverer_user_id, discovered_content_id,
                                             discovery_data, discovery_bonus,
                                             IF r.ok THEN "ok" ELSE "err",
                                             IF r.ok THEN <<r.id>> ELSE <<>>)
    /\ UNCHANGED <<daily_pool, nextTx, now, propVars, cacheVars, award_batch, calcVars>>

\* update_user_engagement(user_id, engagement_score)
UpdateUserEngagement(user_id, engagement_score) ==
    /\ user_engagement_cache' = (user_id :> engagement_score) @@ user_engagement_cache
    /\ last' = ServiceCall("update_user_engagement", user_id, "-", engagement_score,
                           "ok", <<>>)
    /\ UNCHANGED <<rewardVars, content_metrics_cache, now, propVars,
                   award_batch, calcVars>>

\* update_content_metrics(content_id, updated_data)
UpdateContentMetrics(content_id, updated_data) ==
    /\ LET scored == CalculateCompleteEchoIndex(EchoEngineConfigDefault, updated_data, now)
       IN  /\ content_metrics_cache' = (content_id :> scored[2]) @@ content_metrics_cache
           /\ last' = ServiceCall("update_content_metrics", NoUser, content_id,
                                  scored[1], "ok", <<>>)
    /\ UNCHANGED <<rewardVars, user_engagement_cache, now, propVars,
                   award_batch, calcVars>>

ServiceNext ==
    \/ \E u \in Users, c \in ContentIds, d \in CreationInputs :
          ProcessContentCreation(u, c, d)
    \/ \E u \in Users, c \in ContentIds, d \in PropagationInputs :
          ProcessContentPropagation(u, c, d)
    \/ \E u \in Users, c \in ContentIds, d \in DiscoveryInputs :
          ProcessContentDiscovery(u, c, d)
    \/ \E u \in EngagedUsers, e \in EngagementScores : UpdateUserEngagement(u, e)
    \/ \E c \in ContentIds, d \in UpdateInputs : UpdateContentMetrics(c, d)

\* The service is built with a budget of 3.0.
ServiceStart == Init /\ daily_pool = 3 * Scale

\* The reward service: scoring, the two caches and the awards made through them.
ServiceSpec == ServiceStart /\ [][ServiceNext]_vars

\* DiscoveryData: a very late, a middling and a very early discovery
TimingFactors == {0, 500, 1 * Scale}
TimingInputs ==
    {[discovery_timing_factor |-> f, discovery_method |-> "search", platform |-> "web"] :
        f \in TimingFactors}

DiscoveryNext ==
    \/ \E u \in Users, c \in ContentIds, d \in TimingInputs :
          ProcessContentDiscovery(u, c, d)
    \/ \E u \in EngagedUsers, e \in EngagementScores : UpdateUserEngagement(u, e)
    \/ \E c \in ContentIds, d \in UpdateInputs : UpdateContentMetrics(c, d)

\* Discoveries of scored and unscored content, early and late.
DiscoverySpec == ServiceStart /\ [][DiscoveryNext]_vars

\* ------------------------------------------------- out-of-range inputs

\* Nodes for events: one within range, one with influence weight 2.0 and engagement
\* rate -1.0.
RangeNodeInputs ==
    {PropagationNode("a", "User", 1 * Scale, 22026, 1 * Scale, 0),
     PropagationNode("b", "Content", 2 * Scale, 1, -1 * Scale, 0)}
RangeStrengths == {1 * Scale, -1 * Scale}
RangeAwardTypes == {"ContentCreation"}

\* Whether an event's arguments are within the documented ranges.
NodeInRange(node) ==
    /\ FGe(node.influence_weight, 0) /\ FLe(node.influence_weight, 1 * Scale)
    /\ FGe(node.engagement_rate, 0) /\ FLe(node.engagement_rate, 1 * Scale)
EventInRange(from_node, to_node, interaction_strength) ==
    NodeInRange(from_node) /\ NodeInRange(to_node) /\ FGe(interaction_strength, 0)

RangeNext ==
    \/ \E u \in Users, c \in Contents, k \in RangeAwardTypes, a \in Amounts :
          AwardReward(u, c, k, a)
    \/ \E c \in Contents : CreateEchoLoop(c)
    \/ \E l \in LoopIds, f \in RangeNodeInputs, t \in RangeNodeInputs, s \in RangeStrengths :
          AddPropagationEvent(l, f, t, s)

\* The ledger and the tracker, given arguments inside and outside their ranges.
RangeSpec == ServiceStart /\ [][RangeNext]_vars

\* ------------------------------------------ awards issued concurrently

\* A request to award_reward that is in flight: status is "issued" until the call has
\* run, then "ok" or "err"; id is the reward id the call returned.
AwardRequest(user_id, content_id, reward_type, amount) ==
    [user_id |-> user_id, content_id |-> content_id, reward_type |-> reward_type,
     amount |-> amount, status |-> "issued", id |-> 0]

\* The batches callers issue: two requests or more, for the same user or different ones.
Batches ==
    UNION {[1..n -> {AwardRequest(u, "c1", "ContentCreation", a) :
                        u \in Users, a \in Amounts}] : n \in 2..MaxAwards}

\* A call that works on a copy of the ledger taken when its request was issued.
LedgerAtIssue(current, at_issue) == at_issue

\* award_reward(&mut self, ..): a call has the service to itself from its balance check
\* to its last write, so the ledger it works on is the one the call before it left.
LedgerBorrowed(current, at_issue) == current

\* Callers issue several award requests at once.
IssueAwards(requests) ==
    /\ award_batch = NoBatch
    /\ Awarded + Len(requests) <= MaxAwards
    /\ award_batch' = [requests |-> requests, before |-> Ledger]
    /\ last' = Call("issue_awards", NoUser, 0, "ok", <<>>)
    /\ UNCHANGED <<rewardVars, now, propVars, cacheVars, calcVars>>

\* award_reward runs for one of the requests in flight, whichever comes first.
ServeAward(i) ==
    /\ i \in DOMAIN award_batch.requests
    /\ award_batch.requests[i].status = "issued"
    /\ LET q == award_batch.requests[i]
           r == AwardRewardIn(LedgerBorrowed(Ledger, award_batch.before), q.user_id,
                              q.content_id, q.reward_type, q.amount, 0, now)
       IN  /\ SetLedger(r.L)
           /\ award_batch' =
                 [award_batch EXCEPT !.requests[i].status = IF r.ok THEN "ok" ELSE "err",
                                     !.requests[i].id = r.id]
           /\ last' = Call("award_reward", q.user_id, q.amount,
                           IF r.ok THEN "ok" ELSE "err",
                           IF r.ok THEN <<r.id>> ELSE <<>>)
    /\ UNCHANGED <<daily_pool, nextTx, now, propVars, cacheVars, calcVars>>

ConcurrentNext ==
    \/ \E requests \in Batches : IssueAwards(requests)
    \/ \E i \in 1..MaxAwards : ServeAward(i)

\* Batches of award requests against one ledger.
ConcurrentSpec == Init /\ [][ConcurrentNext]_vars

\* ------------------------------------------------- EchoIndexCalculator

\* n as f64 / d as f64, for integers n and d > 0
Ratio(n, d) == TruncDiv(n * Scale, d)

\* EchoIndexCalculator::default()
EchoIndexCalculatorDefault ==
    [odf_weight |-> 300, awr_weight |-> 250, tpm_weight |-> 250, qf_weight |-> 200]

\* TestContent: body is given by its number of words; an engagement metric that is
\* missing is 0 and a quality indicator that is missing is 0.5, as the lookups make them.
TestContent(created_at, words, likes, comments, shares, originality, readability, informativeness) ==
    [created_at |-> created_at, words |-> words, likes |-> likes, comments |-> comments,
     shares |-> shares, originality |-> originality, readability |-> readability,
     informativeness |-> informativeness]

TestPropagation(target_platform, propagation_type, created_at, reach, engagement) ==
    [target_platform |-> target_platform, propagation_type |-> propagation_type,
     created_at |-> created_at, reach |-> reach, engagement |-> engagement]

\* create_test_content(), built when the clock reads 0: created 6 hours before
CreateTestContent == TestContent(-6, 32, 100, 25, 50, 800, 700, 900)

\* create_test_propagations(), built when the clock reads 0
CreateTestPropagations ==
    <<TestPropagation("telegram", "share", -5, 1500, 180),
      TestPropagation("linkedin", "cross_post", -3, 800, 120),
      TestPropagation("reddit", "share", -1, 600, 90)>>

\* The propagations of test_viral_content, built when the clock reads 0
ViralPropagations ==
    [i \in 1..10 |-> TestPropagation("telegram", "share", -(i - 1), 5000, 800)]

\* The content records scored: the one of the tests, and an empty one created when the
\* clock reads 0 whose quality indicators are -1.0.
ContentInputs ==
    {CreateTestContent,
     TestContent(0, 0, 0, 0, 0, -1 * Scale, -1 * Scale, -1 * Scale)}

\* The propagation lists scored, all of non-negative reach and engagement.
PropagationLists ==
    {<<>>, CreateTestPropagations, ViralPropagations,
     <<TestPropagation("telegram", "paid_promotion", 0, 0, 0)>>}

\* (total_reach as f64).log10() for the totals above 10000 that PropagationLists gives:
\* log10 50000 = 4.699 to three decimals.
Log10(total_reach) == CASE total_reach = 50000 -> 4699

\* The elements of list xs, as a set.
Elements(xs) == {xs[k] : k \in DOMAIN xs}

\* The number of elements of list xs that are in the set kept.
CountIf(xs, kept) == Cardinality({i \in DOMAIN xs : xs[i] \in kept})

\* The sum of a list of i64.
RECURSIVE SumInts(_)
SumInts(xs) ==
    IF xs = <<>> THEN 0 ELSE SumInts(SubSeq(xs, 1, Len(xs) - 1)) + xs[Len(xs)]

\* The sum of the values map has at the keys in S.
RECURSIVE SumOver(_, _)
SumOver(map, S) ==
    IF S = {} THEN 0
    ELSE LET k == CHOOSE x \in S : TRUE
         IN  map[k] + SumOver(map, S \ {k})

\* The reaches of a list of propagations.
Reaches(propagations) == [i \in DOMAIN propagations |-> propagations[i].reach]

\* EchoIndexCalculator::calculate_odf at clock reading t
CalcOdf(content, propagations, t) ==
    IF propagations = <<>> THEN 0
    ELSE LET organic_propagations ==
                 CountIf(propagations, 
                         {p \in Elements(propagations) : p.propagation_type # "paid_promotion"})
             total_propagations == Len(propagations)
             organic_ratio == Ratio(organic_propagations, total_propagations)
             unique_platforms ==
                 {propagations[i].target_platform : i \in DOMAIN propagations}
             platform_diversity == FMin(Ratio(Cardinality(unique_platforms), 4), 1 * Scale)
             content_age_hours == t - content.created_at
             discovery_velocity ==
                 IF content_age_hours > 0
                 THEN FDiv(FMin(Ratio(organic_propagations, content_age_hours), 10 * Scale),
                           10 * Scale)
                 ELSE 0
             base_score == FMul(organic_ratio, 40 * Scale)
             diversity_bonus == FMul(platform_diversity, 30 * Scale)
             velocity_bonus == FMul(discovery_velocity, 30 * Scale)
         IN  FMin(FAdd(FAdd(base_score, diversity_bonus), velocity_bonus), 100 * Scale)

\* EchoIndexCalculator::calculate_awr
CalcAwr(content, propagations) ==
    LET total_reach == SumInts(Reaches(propagations))
        total_engagement ==
            SumInts([i \in DOMAIN propagations |-> propagations[i].engagement])
        platforms == {propagations[i].target_platform : i \in DOMAIN propagations}
        platform_reach ==
            [f \in platforms |->
                SumInts(Reaches(SelectSeq(propagations,
                                          LAMBDA p : p.target_platform = f)))]
    IN  IF total_reach = 0 THEN 0
        ELSE LET engagement_rate == Ratio(total_engagement, total_reach)
                 engagement_score == FMin(FMul(engagement_rate, 1000 * Scale), 100 * Scale)
                 max_reach == CHOOSE m \in {platform_reach[f] : f \in platforms} :
                                 \A f \in platforms : platform_reach[f] <= m
                 total_cross_reach ==
                     SumOver(platform_reach,
                             {f \in platforms : platform_reach[f] < max_reach})
                 cross_platform_bonus ==
                     IF Cardinality(platforms) > 1
                     THEN FMul(FMin(FDiv(total_cross_reach * Scale, max_reach * Scale),
                                    1 * Scale),
                               20 * Scale)
                     ELSE 0
                 reach_scale ==
                     IF total_reach > 10000
                     THEN FAdd(80 * Scale, FMul(Log10(total_reach), 5 * Scale))
                     ELSE FMul(Ratio(total_reach, 10000), 80 * Scale)
             IN  FMin(FAdd(FAdd(FMul(engagement_score, 600), cross_platform_bonus),
                           FMul(reach_scale, 400)),
                      100 * Scale)

\* EchoIndexCalculator::calculate_tpm at clock reading t
CalcTpm(content, propagations, t) ==
    IF propagations = <<>> THEN 0
    ELSE LET content_age_hours == t - content.created_at
         IN  IF content_age_hours <= 0 THEN 100 * Scale
             ELSE LET propagations_per_hour == Ratio(Len(propagations), content_age_hours)
                      velocity_score == FMin(FMul(propagations_per_hour, 10 * Scale), 50 * Scale)
                      time_buckets ==
                          [h \in 0..23 |->
                              CountIf(propagations,
                                      {p \in Elements(propagations) : p.created_at - content.created_at = h})]
                      most == CHOOSE m \in {time_buckets[h] : h \in 0..23} :
                                 \A h \in 0..23 : time_buckets[h] <= m
                      peak_hour == CHOOSE h \in 0..23 :
                                      /\ time_buckets[h] = most
                                      /\ \A g \in 0..(h - 1) : time_buckets[g] # most
                      before_peak ==
                          CountIf(propagations,
                                  {p \in Elements(propagations) :
                                      /\ p.created_at - content.created_at >= 0
                                      /\ p.created_at - content.created_at < peak_hour})
                      after_peak ==
                          CountIf(propagations,
                                  {p \in Elements(propagations) :
                                      /\ p.created_at - content.created_at > peak_hour
                                      /\ p.created_at - content.created_at < 24})
                      sustainability_score ==
                          IF peak_hour > 0
                          THEN IF before_peak > 0
                               THEN FMul(FMin(Ratio(after_peak, before_peak), 1 * Scale),
                                         30 * Scale)
                               ELSE 15 * Scale
                          ELSE 20 * Scale
                      recent_propagations ==
                          CountIf(propagations, 
                                  {p \in Elements(propagations) : t - p.created_at < 6})
                      recent_activity_score ==
                          FMul(FMin(Ratio(recent_propagations, 5), 1 * Scale), 20 * Scale)
                  IN  FMin(FAdd(FAdd(velocity_score, sustainability_score),
                                recent_activity_score),
                           100 * Scale)

\* EchoIndexCalculator::calculate_qf
CalcQf(content, propagations) ==
    LET word_count == content.words
        length_score ==
            IF word_count <= 10 THEN 10 * Scale
            ELSE IF word_count <= 50 THEN 25 * Scale
            ELSE IF word_count <= 200 THEN 40 * Scale
            ELSE IF word_count <= 500 THEN 35 * Scale
            ELSE 20 * Scale
        interactions == content.likes + content.comments + content.shares
        engagement_quality ==
            IF interactions > 0
            THEN FMul(Ratio(content.comments, interactions), 30 * Scale)
            ELSE 0
        content_quality ==
            FMul(FDiv(FAdd(FAdd(content.originality, content.readability),
                           content.informativeness),
                      3 * Scale),
                 30 * Scale)
        quality_score == FAdd(FAdd(length_score, engagement_quality), content_quality)
    IN  FMin(quality_score, 100 * Scale)

\* EchoIndexCalculator::calculate_echo_index at clock reading t
CalcEchoIndex(calculator, content, propagations, t) ==
    LET odf_score == CalcOdf(content, propagations, t)
        awr_score == CalcAwr(content, propagations)
        tpm_score == CalcTpm(content, propagations, t)
        qf_score == CalcQf(content, propagations)
        final_score ==
            FAdd(FAdd(FAdd(FMul(odf_score, calculator.odf_weight),
                           FMul(awr_score, calculator.awr_weight)),
                      FMul(tpm_score, calculator.tpm_weight)),
                 FMul(qf_score, calculator.qf_weight))
    IN  [odf_score |-> odf_score, awr_score |-> awr_score, tpm_score |-> tpm_score,
         qf_score |-> qf_score, final_score |-> final_score]

\* A call of calculate_echo_index on a default calculator.
CalculateEchoIndexCall(content, propagations) ==
    /\ Len(scores) < MaxScores
    /\ scores' = Append(scores,
                        [content |-> content, propagations |-> propagations, at |-> now,
                         result |-> CalcEchoIndex(EchoIndexCalculatorDefault, content,
                                                  propagations, now)])
    /\ last' = Call("calculate_echo_index", NoUser, 0, "ok", <<>>)
    /\ UNCHANGED <<rewardVars, propVars, cacheVars, award_batch, engines, now>>

\* The configurations EchoEngine::new is called with: every field of EchoEngineConfig
\* is public, so any values can be passed.
ConfigInputs ==
    {EchoEngineConfigDefault,
     [odf_weight |-> 500, awr_weight |-> 500, tpm_weight |-> 500, qf_weight |-> 500,
      decay_factor |-> 950, boost_threshold |-> 800]}

\* What the model keeps of an engine: its kind and its four weights.
Engine(kind, weights) ==
    [kind |-> kind, odf_weight |-> weights.odf_weight, awr_weight |-> weights.awr_weight,
     tpm_weight |-> weights.tpm_weight, qf_weight |-> weights.qf_weight]

\* EchoEngine::new(config)
EchoEngineNew(config) ==
    /\ engines' = engines \cup {Engine("EchoEngine", config)}
    /\ last' = Call("EchoEngine::new", NoUser, 0, "ok", <<>>)
    /\ UNCHANGED <<rewardVars, propVars, cacheVars, award_batch, scores, now>>

\* EchoEngine::default()
EchoEngineDefault ==
    /\ engines' = engines \cup {Engine("EchoEngine", EchoEngineConfigDefault)}
    /\ last' = Call("EchoEngine::default", NoUser, 0, "ok", <<>>)
    /\ UNCHANGED <<rewardVars, propVars, cacheVars, award_batch, scores, now>>

\* EchoIndexCalculator::default()
CalculatorDefault ==
    /\ engines' = engines \cup {Engine("EchoIndexCalculator", EchoIndexCalculatorDefault)}
    /\ last' = Call("EchoIndexCalculator::default", NoUser, 0, "ok", <<>>)
    /\ UNCHANGED <<rewardVars, propVars, cacheVars, award_batch, scores, now>>

CalcNext ==
    \/ \E c \in ContentInputs, ps \in PropagationLists : CalculateEchoIndexCall(c, ps)
    \/ \E config \in ConfigInputs : EchoEngineNew(config)
    \/ EchoEngineDefault
    \/ CalculatorDefault
    \/ Tick

\* The scoring engines and the four-factor calculator, with the clock.
CalcSpec == PropStart /\ [][CalcNext]_vars

Next == LedgerNext \/ VelocityNext \/ PropNext \/ PathNext \/ ServiceNext \/ DiscoveryNext \/ RangeNext \/ ConcurrentNext \/ CalcNext

Spec == Init /\ [][Next]_vars

\* ------------------------------------- claims on the propagation tracker

\* C7: cleanup_expired_loops(max_age_hours) removes a loop only when its last_updated
\* is older than now - max_age_hours AND its loop_strength is below 0.1; an old loop
\* with strength >= 0.1 survives, and a loop updated after the cutoff survives
\* whatever its strength.
C7_CleanupNeedsOldAndWeak ==
    [][last'.op = "cleanup_expired_loops"
          => \A id \in DOMAIN active_loops :
                id \notin DOMAIN active_loops'
                   => /\ active_loops[id].last_updated < now - last'.amount
                      /\ FLt(active_loops[id].loop_strength, StrengthFloor)]_vars

\* C8: for every loop in every state reachable by create_echo_loop and
\* add_propagation_event with nodes whose influence weight and engagement rate are
\* in [0,1], loop_strength is within [0,1].
C8_LoopStrengthInUnitRange ==
    \A id \in DOMAIN active_loops :
        /\ FGe(active_loops[id].loop_strength, 0)
        /\ FLe(active_loops[id].loop_strength, 1 * Scale)

\* The terms of a loop's strength add up to more than 1: a path of resonance above
\* 1.3 whose two nodes share an id, in a loop created within the hour.
C8_Witness ==
    \E id \in DOMAIN active_loops :
        /\ Len(active_loops[id].propagation_paths) = 1
        /\ CalculatePathResonance(active_loops[id].propagation_paths[1], now) > 1300
        /\ DetectPathConvergence(active_loops[id]) = 500
        /\ active_loops[id].created_at = now
        /\ active_loops[id].loop_strength = 1 * Scale

\* The resonance of the paths of a loop before amplification, at time t.
Unamplified(echo_loop, t) ==
    [i \in DOMAIN echo_loop.propagation_paths |->
        CalculatePathResonance(echo_loop.propagation_paths[i], t)]

RECURSIVE SumOf(_)
SumOf(xs) == IF xs = <<>> THEN 0 ELSE FAdd(SumOf(SubSeq(xs, 1, Len(xs) - 1)), xs[Len(xs)])

\* C9: in one recomputation pass (one add_propagation_event) amplification multiplies
\* each path's resonance_factor by at most 1.5 and the loop's total_resonance by at
\* most 1.3, however far total_resonance exceeds the threshold; when it does not
\* exceed the threshold nothing is multiplied.
C9_AmplificationIsCapped ==
    (last.op = "add_propagation_event" /\ last.result = "ok")
       => LET echo_loop == active_loops[last.ret[1]]
              paths == echo_loop.propagation_paths
              before == Unamplified(echo_loop, now)
              total_before == SumOf(before)
          IN  /\ \A i \in DOMAIN paths :
                    /\ FGe(paths[i].resonance_factor, before[i])
                    /\ FLe(paths[i].resonance_factor, FMul(before[i], 1500))
              /\ FGe(echo_loop.total_resonance, total_before)
              /\ FLe(echo_loop.total_resonance, FMul(total_before, 1300))
              /\ ~FGt(total_before, 300)
                    => /\ echo_loop.total_resonance = total_before
                       /\ \A i \in DOMAIN paths : paths[i].resonance_factor = before[i]

\* An event left a loop of two paths whose resonance before amplification summed to
\* 2.0, an amplification factor of 1.85, and the first path's resonance is 1.5 times
\* what it was.
C9_Witness ==
    /\ last.op = "add_propagation_event"
    /\ last.result = "ok"
    /\ LET echo_loop == active_loops[last.ret[1]]
           before == Unamplified(echo_loop, now)
       IN  /\ Len(before) = 2
           /\ SumOf(before) = 2 * Scale
           /\ echo_loop.propagation_paths[1].resonance_factor = 1500
           /\ echo_loop.total_resonance = 2600

\* C10: amplification does not compound across repeated recomputation: after any
\* sequence of add_propagation_event calls each path's total_weight is at most 1.5
\* times the sum of the edge weights accumulated into the path.
C10_WeightAmplificationBounded ==
    \A id \in DOMAIN active_loops :
        \A i \in DOMAIN active_loops[id].propagation_paths :
            LET path == active_loops[id].propagation_paths[i]
            IN  ~FGt(path.total_weight, FMul(path.edge_weights, 1500))

\* C11: add_propagation_event with a loop_id that is not in the active loop collection
\* returns the loop-not-found error and changes nothing: no loop is created and every
\* existing loop keeps its paths, last_updated, total_resonance and loop_strength.
C11_UnknownLoopChangesNothing ==
    [][(last'.op = "add_propagation_event" /\ last'.ret[1] \notin DOMAIN active_loops)
          => /\ last'.result = "err"
             /\ UNCHANGED active_loops]_vars

\* An event for an unknown loop id was refused while another loop, holding a path,
\* was active.
C11_Witness ==
    /\ last.op = "add_propagation_event"
    /\ last.result = "err"
    /\ last.ret[1] \notin DOMAIN active_loops
    /\ \E id \in DOMAIN active_loops : active_loops[id].propagation_paths # <<>>

\* ------------------------------------------- claims on the reward service

\* C12: process_content_propagation and process_content_discovery for a content id that
\* has never been scored fail with the metrics-not-found error and leave the pool, the
\* pending and processed records, the user stats and both caches unchanged.
C12_UnscoredContentChangesNothing ==
    [][(/\ last'.op \in {"process_content_propagation", "process_content_discovery"}
        /\ last'.content \notin DOMAIN content_metrics_cache)
          => /\ last'.result = "err"
             /\ last'.ret = <<>>
             /\ UNCHANGED <<ledgerVars, nextUuid, nextTx, cacheVars>>]_vars

\* A propagation of unscored content was refused while other content was scored and a
\* record was pending.
C12_Witness ==
    /\ last.op = "process_content_propagation"
    /\ last.result = "err"
    /\ last.content \notin DOMAIN content_metrics_cache
    /\ content_metrics_cache # <<>>
    /\ \E u \in Users : pending_rewards[u] # <<>>

\* C13: out-of-range input is rejected before any state mutation: add_propagation_event
\* with a node whose influence weight or engagement rate is outside [0,1] or with a
\* negative interaction strength, and award_reward with a negative amount, return an
\* error and leave the loop collection and the ledger unchanged.
C13_OutOfRangeRejected ==
    [][/\ (last'.op = "add_propagation_event" /\ last'.result = "ok")
             => EventInRange(last'.from_node, last'.to_node, last'.amount)
       /\ (last'.op = "award_reward" /\ last'.result = "ok")
             => FGe(last'.amount, 0)
       /\ (last'.op \in {"add_propagation_event", "award_reward"} /\ last'.result = "err")
             => UNCHANGED <<active_loops, ledgerVars>>]_vars

\* Whether record r is the award of kind reward_type and the given amount to user_id
\* under reward id id.
IsAward(r, id, user_id, reward_type, amount) ==
    /\ r.id = id
    /\ r.user_id = user_id
    /\ r.reward_type = reward_type
    /\ r.amount = amount
    /\ r.transaction_hash = NoHash

\* Whether after is before with exactly one record appended, the award described.
OneAwardAdded(before, after, id, user_id, reward_type, amount) ==
    /\ Len(after) = Len(before) + 1
    /\ SubSeq(after, 1, Len(before)) = before
    /\ IsAward(after[Len(after)], id, user_id, reward_type, amount)

\* C14: a successful process_content_propagation with propagation reward R grants
\* exactly two awards when the propagator differs from the original creator
\* (PropagationBonus of R to the propagator, then EchoLoopParticipation of 0.3*R to the
\* creator; the pool decreases by 1.3*R; two reward ids are returned) and exactly one
\* award (PropagationBonus of R to the propagator; the pool decreases by R; one reward
\* id is returned) when they are the same user.
C14_PropagationAwards ==
    [][(last'.op = "process_content_propagation" /\ last'.result = "ok")
          => LET R == last'.amount
                 propagator == last'.user
                 creator == last'.creator
                 ids == last'.ret
             IN  /\ processed_rewards' = processed_rewards
                 /\ IF creator # propagator
                    THEN /\ Len(ids) = 2
                         /\ ids[1] # ids[2]
                         /\ OneAwardAdded(pending_rewards[propagator],
                                          pending_rewards'[propagator], ids[1],
                                          propagator, "PropagationBonus", R)
                         /\ OneAwardAdded(pending_rewards[creator],
                                          pending_rewards'[creator], ids[2],
                                          creator, "EchoLoopParticipation", FMul(R, 300))
                         /\ \A u \in Users \ {propagator, creator} :
                               pending_rewards'[u] = pending_rewards[u]
                         /\ current_pool_remaining'
                               = FSub(current_pool_remaining, FMul(R, 1300))
                    ELSE /\ Len(ids) = 1
                         /\ OneAwardAdded(pending_rewards[propagator],
                                          pending_rewards'[propagator], ids[1],
                                          propagator, "PropagationBonus", R)
                         /\ \A u \in Users \ {propagator} :
                               pending_rewards'[u] = pending_rewards[u]
                         /\ current_pool_remaining' = FSub(current_pool_remaining, R)]_vars

\* A propagation by another user than the creator succeeded with a positive finite
\* reward: the propagator and the creator each have a pending record.
C14_Witness ==
    /\ last.op = "process_content_propagation"
    /\ last.result = "ok"
    /\ last.creator # last.user
    /\ FGt(last.amount, 0) /\ FLt(last.amount, PInf)
    /\ Len(last.ret) = 2
    /\ pending_rewards[last.user] # <<>>
    /\ pending_rewards[last.creator] # <<>>
    /\ FLt(current_pool_remaining, daily_pool)

\* C15: whenever process_content_propagation returns an error, the pool remaining, the
\* pending records and the user stats are the same as before the call; in particular
\* when the propagator's award fits the remaining pool but the creator's 30% award does
\* not, no award of that event is recorded and the pool is not decremented.
C15_FailedPropagationChangesNothing ==
    [][(last'.op = "process_content_propagation" /\ last'.result = "err")
          => UNCHANGED <<current_pool_remaining, pending_rewards, user_stats>>]_vars

\* --------------------------------------- claims on concurrent awards

\* The ledger after award_reward has run for the requests in the order ord, from
\* ledger L.
RECURSIVE RunInOrder(_, _, _)
RunInOrder(L, requests, ord) ==
    IF ord = <<>> THEN L
    ELSE LET q == requests[Head(ord)]
         IN  RunInOrder(AwardRewardIn(L, q.user_id, q.content_id, q.reward_type,
                                      q.amount, 0, now).L,
                        requests, Tail(ord))

\* The sum of the amounts of the requests whose index is in S.
RECURSIVE SumRequests(_, _)
SumRequests(requests, S) ==
    IF S = {} THEN 0
    ELSE LET i == CHOOSE x \in S : TRUE
         IN  FAdd(SumRequests(requests, S \ {i}), requests[i].amount)

\* Every request of the batch has been served.
BatchDone ==
    /\ award_batch # NoBatch
    /\ \A i \in DOMAIN award_batch.requests : award_batch.requests[i].status # "issued"

NonNegative(propagations) ==
    \A i \in DOMAIN propagations :
        propagations[i].reach >= 0 /\ propagations[i].engagement >= 0

\* Whether x is a score within [0,100].
InScoreRange(x) == FGe(x, 0) /\ FLe(x, 100 * Scale)

\* C17: for the four-factor calculator, every factor is within [0,100] for every content
\* record and every list of propagations with non-negative reach and engagement, and
\* calculate_odf, calculate_awr and calculate_tpm return exactly 0 for an empty
\* propagation list.
C17_FactorsInRange ==
    \A i \in DOMAIN scores :
        LET r == scores[i].result
        IN  NonNegative(scores[i].propagations)
               => /\ InScoreRange(r.odf_score)
                  /\ InScoreRange(r.awr_score)
                  /\ InScoreRange(r.tpm_score)
                  /\ InScoreRange(r.qf_score)
                  /\ scores[i].propagations = <<>>
                        => r.odf_score = 0 /\ r.awr_score = 0 /\ r.tpm_score = 0

\* C18: scoring is deterministic: two calculate_echo_index calls with the same content
\* record and the same propagation list return identical factor scores and an identical
\* final score, whatever the wall-clock time at which each call is made.
C18_ScoringIsDeterministic ==
    \A i, j \in DOMAIN scores :
        (/\ scores[i].content = scores[j].content
         /\ scores[i].propagations = scores[j].propagations)
           => scores[i].result = scores[j].result

\* Whether a call scored content created 6 hours before it with ten propagations
\* created 0, 1, ..., 9 hours before it, all to one platform, each of reach 5000 and
\* engagement 800.
IsViralScenario(call) ==
    /\ call.at - call.content.created_at = 6
    /\ Len(call.propagations) = 10
    /\ \A k \in 1..10 :
          /\ call.at - call.propagations[k].created_at = k - 1
          /\ call.propagations[k].target_platform = call.propagations[1].target_platform
          /\ call.propagations[k].reach = 5000
          /\ call.propagations[k].engagement = 800

\* C19: for content created 6 hours ago with ten propagations created 0,1,...,9 hours
\* ago, all to the same target platform, each with reach 5000 and engagement 800,
\* calculate_awr returns more than 70 and calculate_tpm returns more than 60.
C19_ViralScores ==
    \A i \in DOMAIN scores :
        IsViralScenario(scores[i])
           => /\ FGt(scores[i].result.awr_score, 70 * Scale)
              /\ FGt(scores[i].result.tpm_score, 60 * Scale)

\* Whether the four weights of an engine sum to 1.0 within 0.001.
WeightsSumToOne(e) ==
    LET total_weight == FAdd(FAdd(FAdd(e.odf_weight, e.awr_weight), e.tpm_weight),
                             e.qf_weight)
    IN  FLe(FAbs(FSub(total_weight, 1 * Scale)), 1)

\* C20: every weight configuration a scoring engine can be constructed with
\* (EchoEngineConfig::default, any config passed to EchoEngine::new,
\* EchoIndexCalculator::default) has odf + awr + tpm + qf weights equal to 1.0 within
\* 0.001, and the weights never change after construction.
C20_WeightsSumToOne ==
    [][/\ \A e \in engines' : WeightsSumToOne(e)
       /\ engines \subseteq engines']_vars

\* ------------------------------------------ further claims on the ledger

\* C21: every entry returned by calculate_leaderboard carries its own position as rank:
\* the entry at 0-based position i of the returned list has rank field i+1, also on the
\* first leaderboard call after new users were awarded and after totals changed the
\* order since the previous call.
C21_ReturnedRankIsPosition ==
    (last.op = "calculate_leaderboard" /\ last.result = "ok")
       => \A i \in DOMAIN last.ret : last.ret[i][2].rank = RankAt(i)

\* The successful award the last call made: the record it appended.
LastAward == pending_rewards[last.user][Len(pending_rewards[last.user])]

\* 1 when the condition holds, 0 when it does not.
Indicator(condition) == IF condition THEN 1 ELSE 0

\* C26: after every successful award, the awarded user's current_multiplier equals
\* 1.0 + 0.2*[quality_bonuses > 20% of total_earned] + 0.3*[propagation_rewards > 30%
\* of total_earned] + 0.1*[reward_velocity > 0.5], evaluated on the stats that already
\* include the new award, capped at 3.0; so current_multiplier is within [1.0, 3.0] in
\* every reachable state, and the amount recorded and deducted from the pool is the
\* requested amount, not scaled by the multiplier.
C26_MultiplierFromNewStats ==
    [][/\ (last'.op = "award_reward" /\ last'.result = "ok")
             => LET user_id == last'.user
                    s == user_stats'[user_id]
                    record == pending_rewards'[user_id][Len(pending_rewards'[user_id])]
                IN  /\ s.current_multiplier =
                          FMin(1 * Scale
                                  + 200 * Indicator(FGt(s.quality_bonuses,
                                                        FMul(s.total_earned, 200)))
                                  + 300 * Indicator(FGt(s.propagation_rewards,
                                                        FMul(s.total_earned, 300)))
                                  + 100 * Indicator(FGt(s.reward_velocity, 500)),
                               3 * Scale)
                    /\ record.id = last'.ret[1]
                    /\ record.amount = last'.amount
                    /\ current_pool_remaining' = FSub(current_pool_remaining, last'.amount)
       /\ \A u \in DOMAIN user_stats' :
             /\ FGe(user_stats'[u].current_multiplier, 1 * Scale)
             /\ FLe(user_stats'[u].current_multiplier, 3 * Scale)]_vars

\* An award was made to a user whose quality share, propagation share and velocity all
\* earn their bonus: the multiplier is 1.6.
C26_Witness ==
    /\ last.op = "award_reward"
    /\ last.result = "ok"
    /\ FGt(user_stats[last.user].reward_velocity, 500)
    /\ user_stats[last.user].current_multiplier = 1600

\* The records of a user in both collections whose timestamp is not before cutoff_time.
RecentRecords(user_id, cutoff_time) ==
    SelectSeq(processed_rewards[user_id] \o pending_rewards[user_id],
              LAMBDA r : r.timestamp >= cutoff_time)

\* C27: after every successful award, the awarded user's reward_velocity equals the sum
\* of the amounts of all rewards awarded to that user within the preceding 24 hours
\* (whether still pending or already processed, and including the award just made)
\* divided by 24.
C27_VelocityIsTrailingDayRate ==
    (last.op = "award_reward" /\ last.result = "ok")
       => user_stats[last.user].reward_velocity
             = FDiv(SumAmounts(RecentRecords(last.user, now - 24)), 24 * Scale)

\* All records of a user, processed and pending.
RecordsOf(user_id) == processed_rewards[user_id] \o pending_rewards[user_id]

\* The kinds that update_user_stats counts in one of the three category totals.
CategoryKinds == {"ContentCreation", "PropagationBonus", "EchoLoopParticipation", "QualityBonus"}

C30_SpentIsAwardedSinceReset ==
    [][LET spent == FSub(daily_pool, current_pool_remaining)
           spent_after == FSub(daily_pool', current_pool_remaining')
       IN  /\ last.op = "new" => spent = 0
           /\ daily_pool' = daily_pool
           /\ CASE last'.op = "reset_daily_pool" ->
                      /\ spent_after = 0
                      /\ UNCHANGED <<pending_rewards, processed_rewards, user_stats>>
                [] last'.op = "award_reward" /\ last'.result = "ok" ->
                      spent_after = FAdd(spent, last'.amount)
                [] OTHER -> spent_after = spent]_vars

\* An award was accepted after a reset that followed an earlier award: what is spent is
\* the later amount alone, while both records are kept.
C30_Witness ==
    /\ last.op = "award_reward"
    /\ last.result = "ok"
    /\ Awarded = 2
    /\ FSub(daily_pool, current_pool_remaining) = last.amount
    /\ daily_pool = 3 * Scale
    /\ last.amount = 2 * Scale

\* ---------------------------------- further claims on the propagation tracker

\* The difference the fixed-point products of n paths can make to a sum.
Rounding(n) == n

\* C22: after every successful add_propagation_event, the loop's total_resonance equals
\* the sum of the resonance_factor values of its paths, including when resonance
\* amplification was applied in that pass.
C22_TotalIsSumOfPaths ==
    (last.op = "add_propagation_event" /\ last.result = "ok")
       => LET echo_loop == active_loops[last.ret[1]]
          IN  FLe(FAbs(FSub(echo_loop.total_resonance,
                            SumResonance(echo_loop.propagation_paths))),
                  Rounding(Len(echo_loop.propagation_paths)))

\* The last node of a path.
LastNode(path) == path.nodes[Len(path.nodes)]

NodeVisits(echo_loop) ==
    {v \in (DOMAIN echo_loop.propagation_paths) \X (1..(2 + MaxEvents + MaxPathEvents)) :
        v[2] <= Len(echo_loop.propagation_paths[v[1]].nodes)}

\* The visits of a loop whose node id was already visited earlier in the loop, paths
\* taken in insertion order and nodes in path order.
RepeatVisits(echo_loop) ==
    LET paths == echo_loop.propagation_paths
        Earlier(u, v) == u[1] < v[1] \/ (u[1] = v[1] /\ u[2] < v[2])
    IN  {v \in NodeVisits(echo_loop) :
            \E u \in NodeVisits(echo_loop) :
                /\ Earlier(u, v)
                /\ paths[u[1]].nodes[u[2]].id = paths[v[1]].nodes[v[2]].id}

\* C24: the convergence factor of a loop equals (number of node visits, over all paths,
\* whose node id was already visited earlier in the loop) divided by (total number of
\* node visits); e.g. a node id that occurs 3 times among 6 visits contributes 2
\* repeats, giving 2/6.
C24_ConvergenceIsRepeatShare ==
    \A id \in DOMAIN active_loops :
        LET echo_loop == active_loops[id]
            total == Cardinality(NodeVisits(echo_loop))
        IN  total > 0
               => DetectPathConvergence(echo_loop)
                     = Ratio(Cardinality(RepeatVisits(echo_loop)), total)

\* ------------------------------------ further claims on the reward service

\* The bonus process_content_discovery computes for the content and the user of the
\* last call when the timing factor is f.
BonusAt(f) ==
    CalculateDiscoveryBonus(
        CalculateEchoIndex(EchoEngineConfigDefault, content_metrics_cache[last.content]),
        f, GetInfluence(user_engagement_cache, last.user))

\* C25: the discovery reward rewards earlier discovery: for a fixed content score >= 0
\* and discoverer influence, process_content_discovery with a larger
\* discovery_timing_factor (0.0 = very late, 1.0 = very early) never awards a smaller
\* amount than with a smaller factor, and the timing bonus is linear in the factor on
\* [0,1].
C25_EarlierDiscoveryEarnsMore ==
    (last.op = "process_content_discovery" /\ last.result = "ok")
       => /\ last.amount = BonusAt(last.timing)
          /\ \A f \in TimingFactors : f <= last.timing => FLe(BonusAt(f), last.amount)
          /\ FLe(FAbs(FSub(FAdd(BonusAt(0), BonusAt(1 * Scale)), FMul(2 * Scale, BonusAt(500)))), 2)

\* Whether x is a finite value within [0,1].
InUnitRange(x) == FGe(x, 0) /\ FLe(x, 1 * Scale)

\* C28: process_content_creation, which scores new content with zero shares, zero
\* views, empty engagement metrics and quality inputs in their documented ranges, awards
\* a finite amount >= 0: every cached factor of the new content is a finite value in
\* [0,1], and the call never increases current_pool_remaining.
C28_CreationAwardIsFinite ==
    [][last'.op = "process_content_creation"
          => LET metrics == content_metrics_cache'[last'.content]
             IN  /\ FGe(last'.amount, 0)
                 /\ ~IsInf(last'.amount)
                 /\ InUnitRange(metrics.organic_discovery_factor)
                 /\ InUnitRange(metrics.attention_weight_ratio)
                 /\ InUnitRange(metrics.temporal_persistence_metric)
                 /\ InUnitRange(metrics.quality_factor)
                 /\ ~FGt(current_pool_remaining', current_pool_remaining)]_vars

====
